---- MODULE Spec2Model ----
(***************************************************************************)
(* State-machine model of the sar-bot chat agent: the tool tables          *)
(* (tools.ts), the chat turn with its confirmation resolver                *)
(* (Chat.onChatMessage -> processToolCalls), the deferred-task             *)
(* scheduler as driven by the scheduleTask / getScheduledTasks /           *)
(* cancelScheduledTask tools and the Chat.executeTask callback, a chat     *)
(* turn in flight against the scheduler's fires, and the ingestion         *)
(* workflow (POST /text, RAGWorkflow.run).                                 *)
(***************************************************************************)
EXTENDS Integers, Sequences, FiniteSets, TLC

VARIABLES
    mcpTools,       \* names returned by this.mcp.unstable_getAITools()
    scheduleAsync,  \* whether agent.schedule() reports failure by a rejected promise
    messages,       \* this.messages: the conversation history, in order
    decisions,      \* invocation id -> human decision (external approval channel)
    calls,          \* invocation id -> the calls made to its execution function
    everApproved,   \* invocation ids for which an approval was ever recorded
    now,            \* the clock, in seconds
    schedules,      \* the scheduler's active specs, in registration order
    nextId,         \* the id the next registered spec gets
    regLog,         \* every registration made: spec id, invocation, time
    fireLog,        \* every callback invocation made by the scheduler, and its message
    cancelled,      \* ids whose cancel(id) completed
    busy,           \* what the conversation's actor is running: "free" or "turn"
    snap,           \* this.messages as the in-flight turn read it
    response,       \* status of the last POST /text response (0: none yet)
    wfStatus,       \* the ingestion run: "none", "running", "complete", "failed"
    wfText,         \* event.payload.text of the run
    wfRecord,       \* checkpoint of 'create database record' (a row, or NoRow)
    wfEmbedding,    \* checkpoint of 'generate embedding' (or NoEmbedding)
    wfVector,       \* whether 'insert vector' is checkpointed
    wfPending,      \* value returned by the step callback, not yet checkpointed
    wfAttempts,     \* failed attempts of the step the run is at
    wfCrashes,      \* engine crashes so far
    wfRuns,         \* step name -> times its callback was run
    wfEmpty,        \* whether the INSERT of the run ever returned no row
    docs,           \* the docs table: rows [id, text]
    nextRowId,      \* the id the next inserted row gets
    vectors         \* the vector index: entries [id, values]

chatVars == <<mcpTools, scheduleAsync, messages, decisions, calls, everApproved,
              now, schedules, nextId, regLog, fireLog, cancelled>>

raceVars == <<busy, snap>>

wfVars == <<response, wfStatus, wfText, wfRecord, wfEmbedding, wfVector,
            wfPending, wfAttempts, wfCrashes, wfRuns, wfEmpty, docs, nextRowId,
            vectors>>

vars == <<chatVars, raceVars, wfVars>>

(***************************************************************************)
(* Bounds of the model.                                                    *)
(***************************************************************************)
MaxInv == 2      \* tool invocations the language model emits
MaxFires == 2    \* scheduler fires (each appends one message)
MaxTime == 3     \* last clock value
MaxCalls == 2    \* tool calls one streamText response carries
MaxAttempts == 2 \* attempts the workflow engine gives a step
MaxCrashes == 1  \* engine crashes during one run

(***************************************************************************)
(* Tool tables (tools.ts).                                                 *)
(***************************************************************************)
\* export const tools = {...}: the statically declared tool names.
tools ==
    {"getWeatherInformation", "getLocalTime", "scheduleTask",
     "getScheduledTasks", "cancelScheduledTask", "getRAGTool"}

\* A static tool declaration that forgets getLocalTime's execute function.
HasExecuteDropped(name) ==
    name \in tools \ {"getWeatherInformation", "getLocalTime"}

\* A static tool declaration that attaches execute to getWeatherInformation.
HasExecuteAll(name) == name \in tools

\* Whether the static declaration of `name` carries an execute function:
\* every tool(...) call but getWeatherInformation's passes one.
HasExecute(name) == name \in tools \ {"getWeatherInformation"}

\* An executions table whose entry is keyed by another name than the tool's.
executionsMisnamed == {"getWeather"}

\* export const executions = {...}: the names that have an entry.
executions == {"getWeatherInformation"}

\* The dynamically discovered tool sets the model considers.  Every MCP tool
\* carries an execute function.
McpToolSets == {{}, {"mcpEcho"}, {"getWeatherInformation"}}

\* const allTools = {...tools, ...this.mcp.unstable_getAITools()}: one
\* name-keyed mapping; a later spread overwrites an earlier key.
allTools ==
    [name \in tools \cup mcpTools |->
        IF name \in mcpTools
        THEN [source |-> "mcp", execute |-> TRUE]
        ELSE [source |-> "static", execute |-> HasExecute(name)]]

\* Registry classification of a tool definition.
classify(tool) ==
    IF tool.execute THEN "Auto" ELSE "RequiresConfirmation"

(***************************************************************************)
(* Values.                                                                 *)
(***************************************************************************)
MaxMsgs == MaxInv + MaxFires
MsgIds == 1..MaxMsgs

Cities == {"Paris", "Oslo"}
Descriptions == {"feed", "walk"}
Delays == {1, 2}
Dates == {2}
CronExprs == {"*/2", "bogus"}
TaskIds == 1..MaxInv

\* Workflow values: the absent checkpoints and the step names of run().
NoRow == [id |-> 0, text |-> ""]
NoEmbedding == [model |-> "none", input |-> ""]
NoPending == [step |-> "none"]
StepNames == {"create database record", "generate embedding", "insert vector"}

NoResult == [kind |-> "none"]
DeclinedResult == [kind |-> "declined"]

\* The schedule spec variants of unstable_scheduleSchema.
Whens ==
    [type : {"scheduled"}, date : Dates]
    \cup [type : {"delayed"}, delayInSeconds : Delays]
    \cup [type : {"cron"}, cron : CronExprs]
    \cup {[type |-> "no-schedule"]}

(***************************************************************************)
(* The scheduler (agent.schedule / getSchedules / cancelSchedule) at its   *)
(* interface.  A scheduler state is [schedules, nextId, cancelled].         *)
(***************************************************************************)
\* External cron evaluator: which expressions parse, and the period of one.
CronValid(expr) == expr = "*/2"
CronPeriod(expr) == 2

\* External cron evaluator: the first matching time strictly after t.
NextCronTime(expr, t) == t + (CronPeriod(expr) - (t % CronPeriod(expr)))

\* Whether schedule(input, ...) fails with InvalidSchedule.
InvalidSchedule(input) ==
    input.type = "invalid" \/ (input.type = "string" /\ ~CronValid(input.cron))

\* Normalization of a schedule input to its absolute next-fire time.
NormalizedTime(input, t) ==
    CASE input.type = "Date" -> input.date
      [] input.type = "number" -> t + input.delayInSeconds
      [] input.type = "string" -> NextCronTime(input.cron, t)

\* schedule(input, callback, payload) on a valid input: registers one spec.
schedule(sch, input, callback, payload, t) ==
    LET spec == [id |-> sch.nextId,
                 type |-> CASE input.type = "Date" -> "scheduled"
                            [] input.type = "number" -> "delayed"
                            [] input.type = "string" -> "cron",
                 time |-> NormalizedTime(input, t),
                 cron |-> IF input.type = "string" THEN input.cron ELSE "",
                 callback |-> callback,
                 payload |-> payload]
    IN [sch EXCEPT !.schedules = Append(@, spec), !.nextId = @ + 1]

\* list(): the active specs, in order.
getSchedules(sch) == sch.schedules

ActiveIds(specs) == {specs[i].id : i \in 1..Len(specs)}

\* The sequence specs without the spec whose id is `id`.
RECURSIVE RemoveId(_, _)
RemoveId(specs, id) ==
    IF specs = <<>> THEN <<>>
    ELSE IF Head(specs).id = id THEN RemoveId(Tail(specs), id)
    ELSE <<Head(specs)>> \o RemoveId(Tail(specs), id)

\* Whether cancel(id) fails with NotFound.
NotFound(sch, id) == id \notin ActiveIds(sch.schedules)

\* cancel(id) on an active id: removes the spec.
cancelSchedule(sch, id) ==
    [sch EXCEPT !.schedules = RemoveId(@, id),
                !.cancelled = @ \cup {id}]

(***************************************************************************)
(* Tool execute functions (tools.ts).  Each yields                         *)
(* [raised, result, sch]: whether it threw, what it returned, and the      *)
(* scheduler state it leaves.                                              *)
(***************************************************************************)
Returned(result, sch) == [raised |-> FALSE, result |-> result, sch |-> sch]
\* An execute that hands its failure back as an ordinary return value.
RaisedUnmarked(sch) == [raised |-> FALSE, result |-> [kind |-> "error"], sch |-> sch]

Raised(sch) == [raised |-> TRUE, result |-> [kind |-> "error"], sch |-> sch]

\* executions.getWeatherInformation
getWeatherInformationExecution(args) ==
    [kind |-> "The weather is sunny", city |-> args.city]

\* getLocalTime.execute
getLocalTimeExecute(args, sch) == Returned([kind |-> "10am"], sch)

\* getRAGTool.execute: three awaited external calls, any of which may throw.
getRAGToolExecute(args, sch, throws) ==
    IF throws THEN Raised(sch)
    ELSE Returned([kind |-> "output_text", query |-> args.query], sch)

\* A selection that hands a cron expression over as a delay of two seconds.
ScheduleInputCronAsDelay(when) ==
    CASE when.type = "scheduled" -> [type |-> "Date", date |-> when.date]
      [] when.type = "delayed" -> [type |-> "number", delayInSeconds |-> when.delayInSeconds]
      [] when.type = "cron" -> [type |-> "number", delayInSeconds |-> 2]
      [] OTHER -> [type |-> "throwError"]

\* A selection that passes the delay where the date is meant and vice versa.
ScheduleInputSwapped(when) ==
    CASE when.type = "scheduled" -> [type |-> "number", delayInSeconds |-> when.date]
      [] when.type = "delayed" -> [type |-> "Date", date |-> when.delayInSeconds]
      [] when.type = "cron" -> [type |-> "string", cron |-> when.cron]
      [] OTHER -> [type |-> "throwError"]

\* const input = when.type === "scheduled" ? when.date : ... : throwError(...)
\* The value keeps its run-time type, on which schedule() dispatches.
ScheduleInput(when) ==
    CASE when.type = "scheduled" -> [type |-> "Date", date |-> when.date]
      [] when.type = "delayed" -> [type |-> "number", delayInSeconds |-> when.delayInSeconds]
      [] when.type = "cron" -> [type |-> "string", cron |-> when.cron]
      [] OTHER -> [type |-> "throwError"]

TaskScheduled(when, input) ==
    [kind |-> "Task scheduled", type |-> when.type, input |-> input]

\* scheduleTask.execute.  The call agent.schedule(...) sits in a try block but
\* is not awaited: a failure thrown by the call itself is caught and reported;
\* a failure delivered through the returned promise is not, and execution
\* continues to the final return.
scheduleTaskExecute(args, sch, t, async) ==
    IF args.when.type = "no-schedule"
    THEN Returned([kind |-> "Not a valid schedule input"], sch)
    ELSE LET input == ScheduleInput(args.when) IN
         IF input.type = "throwError" THEN Raised(sch)
         ELSE IF InvalidSchedule(input)
         THEN IF async
              THEN Returned(TaskScheduled(args.when, input), sch)
              ELSE Returned([kind |-> "Error scheduling task"], sch)
         ELSE Returned(TaskScheduled(args.when, input),
                       schedule(sch, input, "executeTask", args.description, t))

\* getScheduledTasks.execute
getScheduledTasksExecute(args, sch) ==
    LET tasks == getSchedules(sch) IN
    IF Len(tasks) = 0
    THEN Returned([kind |-> "No scheduled tasks found."], sch)
    ELSE Returned([kind |-> "tasks", tasks |-> tasks], sch)

\* A cancel tool that reports success whatever cancelSchedule did.
cancelScheduledTaskExecuteNoCatch(args, sch) ==
    IF NotFound(sch, args.taskId)
    THEN Returned([kind |-> "has been successfully canceled",
                   taskId |-> args.taskId], sch)
    ELSE Returned([kind |-> "has been successfully canceled",
                   taskId |-> args.taskId], cancelSchedule(sch, args.taskId))

\* A cancel tool that reports success without calling cancelSchedule.
cancelScheduledTaskExecuteSkips(args, sch) ==
    Returned([kind |-> "has been successfully canceled",
              taskId |-> args.taskId], sch)

\* cancelScheduledTask.execute: try { await cancelSchedule } catch { report }
cancelScheduledTaskExecute(args, sch) ==
    IF NotFound(sch, args.taskId)
    THEN Returned([kind |-> "Error canceling task", taskId |-> args.taskId], sch)
    ELSE Returned([kind |-> "has been successfully canceled",
                   taskId |-> args.taskId], cancelSchedule(sch, args.taskId))

\* The execute function attached to the tool `name` of the active mapping.
ToolExecute(name, tool, args, sch, t, async, throws) ==
    IF tool.source = "mcp" THEN Returned([kind |-> "mcp result"], sch)
    ELSE CASE name = "getLocalTime" -> getLocalTimeExecute(args, sch)
           [] name = "getRAGTool" -> getRAGToolExecute(args, sch, throws)
           [] name = "scheduleTask" -> scheduleTaskExecute(args, sch, t, async)
           [] name = "getScheduledTasks" -> getScheduledTasksExecute(args, sch)
           [] name = "cancelScheduledTask" -> cancelScheduledTaskExecute(args, sch)
           [] OTHER -> Raised(sch)

(***************************************************************************)
(* The confirmation resolver, processToolCalls.  A pass state is           *)
(* [messages, calls, sch, regLog].                                         *)
(***************************************************************************)
IsInvocation(m) == m.role = "assistant"

Pending(m) == IsInvocation(m) /\ m.toolInvocation.state = "pending"

Terminal(m) ==
    IsInvocation(m) /\ m.toolInvocation.state \in {"executed", "error", "denied"}

\* The message m with its invocation moved to `state` with `result`.
Resolved(m, state, result) ==
    [m EXCEPT !.toolInvocation.state = state, !.toolInvocation.result = result]

\* Resolution of the invocation of message i, if it is still pending.
ResolveInvocation(st, i, decs, tls, execs, t, async, raising) ==
    LET m == st.messages[i]
        inv == m.toolInvocation
    IN
    IF ~Pending(m) \/ inv.toolName \notin DOMAIN tls THEN st
    ELSE IF classify(tls[inv.toolName]) = "Auto"
    THEN \* case 1: execute now, capture the result or the caught error
         LET r == ToolExecute(inv.toolName, tls[inv.toolName], inv.args,
                              st.sch, t, async, i \in raising)
         IN [messages |-> [st.messages EXCEPT ![i] =
                              Resolved(m, IF r.raised THEN "error" ELSE "executed",
                                       r.result)],
             calls |-> [st.calls EXCEPT ![i] =
                              Append(@, [fn |-> "execute", args |-> inv.args])],
             sch |-> r.sch,
             \* history: which invocation registered which spec, and when
             regLog |-> IF r.sch.nextId > st.sch.nextId
                        THEN Append(st.regLog,
                                    [id |-> st.sch.nextId, by |-> i, at |-> t,
                                     time |-> r.sch.schedules[Len(r.sch.schedules)].time])
                        ELSE st.regLog]
    ELSE IF decs[i] = "none"
    THEN \* case 2: left untouched
         st
    ELSE IF decs[i] = "denied"
    THEN \* case 3: the fixed declined result, no call
         [st EXCEPT !.messages[i] = Resolved(m, "denied", DeclinedResult)]
    ELSE \* case 4: the registered execution function, original arguments
         IF inv.toolName \in execs
         THEN [st EXCEPT
                 !.messages[i] = Resolved(m, "executed",
                                          getWeatherInformationExecution(inv.args)),
                 !.calls[i] = Append(@, [fn |-> "executions", args |-> inv.args])]
         ELSE [st EXCEPT !.messages[i] = Resolved(m, "error", [kind |-> "error"])]

RECURSIVE ResolveFrom(_, _, _, _, _, _, _, _)
ResolveFrom(st, i, decs, tls, execs, t, async, raising) ==
    IF i > Len(st.messages) THEN st
    ELSE ResolveFrom(ResolveInvocation(st, i, decs, tls, execs, t, async, raising),
                     i + 1, decs, tls, execs, t, async, raising)

\* One resolver pass over the history, in message order.
processToolCalls(msgs, decs, tls, execs, cls, sch, log, t, async, raising) ==
    ResolveFrom([messages |-> msgs, calls |-> cls, sch |-> sch, regLog |-> log],
                1, decs, tls, execs, t, async, raising)

(***************************************************************************)
(* State machine.                                                          *)
(***************************************************************************)
Sch == [schedules |-> schedules, nextId |-> nextId, cancelled |-> cancelled]

\* The argument values the language model may pass to each tool.
ArgsOf(name) ==
    CASE name = "getWeatherInformation" -> [city : Cities]
      [] name = "getLocalTime" -> [location : {"Paris"}]
      [] name = "getRAGTool" -> [query : {"notes"}]
      [] name = "scheduleTask" -> [when : Whens, description : Descriptions]
      [] name = "getScheduledTasks" -> {[empty |-> TRUE]}
      [] name = "cancelScheduledTask" -> [taskId : TaskIds]
      [] OTHER -> [text : {"hi"}]

\* The assistant message carrying a freshly emitted tool call.
ToolCall(name, args) ==
    [role |-> "assistant",
     toolInvocation |-> [toolName |-> name, args |-> args,
                         state |-> "pending", result |-> NoResult]]

InvocationIds(msgs) == {i \in 1..Len(msgs) : IsInvocation(msgs[i])}

\* The tools the language model calls in conversations about weather, time
\* and the knowledge base, and in conversations about scheduling.
ConversationTools == {"getWeatherInformation", "getLocalTime", "getRAGTool", "mcpEcho"}
SchedulingTools == {"scheduleTask", "getScheduledTasks", "cancelScheduledTask"}

Init ==
    /\ mcpTools \in McpToolSets
    /\ scheduleAsync \in BOOLEAN
    /\ messages = <<>>
    /\ decisions = [i \in MsgIds |-> "none"]
    /\ calls = [i \in MsgIds |-> <<>>]
    /\ everApproved = {}
    /\ now = 0
    /\ schedules = <<>>
    /\ nextId = 1
    /\ regLog = <<>>
    /\ fireLog = <<>>
    /\ cancelled = {}
    /\ busy = "free"
    /\ snap = <<>>
    /\ response = 0
    /\ wfStatus = "none"
    /\ wfText = ""
    /\ wfRecord = NoRow
    /\ wfEmbedding = NoEmbedding
    /\ wfVector = FALSE
    /\ wfPending = NoPending
    /\ wfAttempts = 0
    /\ wfCrashes = 0
    /\ wfRuns = [s \in StepNames |-> 0]
    /\ wfEmpty = FALSE
    /\ docs = {}
    /\ nextRowId = 1
    /\ vectors = {}

\* The tool calls of one streamText response: one to n calls of callable tools.
ToolCallsOf(callable) ==
    UNION {{ToolCall(name, args) : args \in ArgsOf(name)} :
             name \in callable \cap DOMAIN allTools}

NewToolCalls(callable, n) ==
    UNION {[1..k -> ToolCallsOf(callable)] : k \in 1..n}

\* A turn that hands streamText the history as it was before the resolver pass.
streamTextMessagesStale(processedMessages, thisMessages) == thisMessages

\* streamText({..., messages: processedMessages, ...}): the history the turn
\* continues from is the resolver's output.
streamTextMessages(processedMessages, thisMessages) == processedMessages

\* Chat.onChatMessage: processToolCalls over this.messages with the merged
\* tool mapping and the executions table, then streamText, whose response
\* carries up to `n` new tool calls among `callable`.
onChatMessage(callable, n) ==
    \E raising \in SUBSET {i \in InvocationIds(messages) :
                              /\ Pending(messages[i])
                              /\ messages[i].toolInvocation.toolName = "getRAGTool"} :
      LET st == processToolCalls(messages, decisions, allTools, executions,
                                 calls, Sch, regLog, now, scheduleAsync, raising)
          history == streamTextMessages(st.messages, messages)
      IN /\ \/ messages' = history
            \/ \E new \in NewToolCalls(callable, n) :
                 /\ Cardinality(InvocationIds(messages)) + Len(new) <= MaxInv
                 /\ messages' = history \o new
         /\ calls' = st.calls
         /\ schedules' = st.sch.schedules
         /\ nextId' = st.sch.nextId
         /\ regLog' = st.regLog
         /\ cancelled' = st.sch.cancelled
         /\ UNCHANGED <<mcpTools, scheduleAsync, decisions, everApproved, now, fireLog>>
         /\ UNCHANGED wfVars

\* The external approval channel records a decision for an invocation.
RecordDecision ==
    \E i \in InvocationIds(messages) : \E d \in {"approved", "denied"} :
      /\ decisions[i] # d
      /\ decisions' = [decisions EXCEPT ![i] = d]
      /\ everApproved' = IF d = "approved" THEN everApproved \cup {i} ELSE everApproved
      /\ UNCHANGED <<mcpTools, scheduleAsync, messages, calls, now, schedules,
                     nextId, regLog, fireLog, cancelled>>
      /\ UNCHANGED <<raceVars, wfVars>>

\* An executeTask that saves the new message alone, without ...this.messages.
executeTaskReplaces(msgs, description) ==
    <<[role |-> "user",
       content |-> [text |-> "Running scheduled task",
                    description |-> description]]>>

\* Chat.executeTask: saveMessages([...this.messages, {role: "user", ...}]).
executeTask(msgs, description) ==
    Append(msgs, [role |-> "user",
                  content |-> [text |-> "Running scheduled task",
                               description |-> description]])

Due(spec) == spec.time <= now

\* The clock advances once every due spec has been delivered.
Tick ==
    /\ now < MaxTime
    /\ \A i \in 1..Len(schedules) : ~Due(schedules[i])
    /\ now' = now + 1
    /\ UNCHANGED <<mcpTools, scheduleAsync, messages, decisions, calls,
                   everApproved, schedules, nextId, regLog, fireLog, cancelled>>
    /\ UNCHANGED <<raceVars, wfVars>>

\* A spec whose fire time has elapsed fires: its callback runs with its
\* payload; a one-off spec is removed, a cron spec gets its next fire time.
Fire ==
    \E i \in 1..Len(schedules) :
      LET spec == schedules[i] IN
      /\ Due(spec)
      /\ Len(fireLog) < MaxFires
      /\ messages' = executeTask(messages, spec.payload)
      /\ fireLog' = Append(fireLog, [id |-> spec.id, at |-> now,
                                     callback |-> spec.callback,
                                     payload |-> spec.payload,
                                     msg |-> Len(messages')])
      /\ schedules' = IF spec.type = "cron"
                      THEN [schedules EXCEPT ![i].time = NextCronTime(spec.cron, now)]
                      ELSE RemoveId(schedules, spec.id)
      /\ UNCHANGED <<mcpTools, scheduleAsync, decisions, calls, everApproved,
                     now, nextId, regLog, cancelled>>
      /\ UNCHANGED <<raceVars, wfVars>>

ChatTurn == onChatMessage(ConversationTools, MaxCalls) /\ UNCHANGED raceVars

Next == ChatTurn \/ RecordDecision

Spec == Init /\ [][Next]_vars

SchedInit == Init /\ mcpTools = {}

SchedTurn == onChatMessage(SchedulingTools, 1) /\ UNCHANGED raceVars

SchedNext == SchedTurn \/ Tick \/ Fire

SchedSpec == SchedInit /\ [][SchedNext]_vars

(***************************************************************************)
(* A chat turn in flight and the scheduler's fires.  The conversation is   *)
(* one actor: it takes up a turn, and until the turn has saved its         *)
(* history a fire that falls due waits.                                    *)
(***************************************************************************)
RaceTools == {"scheduleTask"}

\* The actor takes up an incoming turn; the turn works on this.messages.
TurnStart ==
    /\ busy = "free"
    /\ busy' = "turn"
    /\ snap' = messages
    /\ UNCHANGED <<chatVars, wfVars>>

\* The turn runs onChatMessage to its end and the actor is released.
TurnFinish ==
    /\ busy = "turn"
    /\ onChatMessage(RaceTools, 1)
    /\ busy' = "free"
    /\ snap' = <<>>

\* A due spec is delivered to the actor when no turn holds it.
RaceFire == busy = "free" /\ Fire

RaceInit == SchedInit /\ ~scheduleAsync

RaceNext == TurnStart \/ TurnFinish \/ RaceFire \/ Tick

RaceSpec == RaceInit /\ [][RaceNext]_vars

(***************************************************************************)
(* The ingestion workflow: POST /text and RAGWorkflow.run, executed by a   *)
(* workflow engine that checkpoints each step's result, retries a step     *)
(* whose callback threw, and after a crash replays run() with the          *)
(* checkpointed steps skipped.                                             *)
(***************************************************************************)
Texts == {"", "hello"}

\* if (!text) return c.text("Missing text", 400)
MissingText(text) == text = ""

\* A run() that, once the embedding is checkpointed, awaits something that
\* never settles instead of reaching the 'insert vector' step.
CurrentStepHangs ==
    IF wfRecord = NoRow THEN "create database record"
    ELSE IF wfEmbedding = NoEmbedding THEN "generate embedding"
    ELSE "never"

\* run(): the three step.do calls in sequence; the step the run is at is
\* the first one without a checkpoint.
CurrentStep ==
    IF wfRecord = NoRow THEN "create database record"
    ELSE IF wfEmbedding = NoEmbedding THEN "generate embedding"
    ELSE IF ~wfVector THEN "insert vector"
    ELSE "done"

\* The result sets the INSERT ... RETURNING * may come back with: no row
\* (nothing inserted), or the inserted row.
InsertResults == {<<>>, <<[id |-> nextRowId, text |-> wfText]>>}

\* const record = results[0]; if (!record) throw new Error(...)
CreateRecordThrows(results) == Len(results) = 0

\* embedding.data[0].embedding of ai.embeddings.create({model, input: text}).
Embed(text) == [model |-> "text-embedding-3-small", input |-> text]

\* record.id.toString()
IdString(n) ==
    IF n < 10 THEN <<"0", "1", "2", "3", "4", "5", "6", "7", "8", "9">>[n + 1]
    ELSE "many"

\* {id: record.id.toString(), values: embedding}
VectorEntry(record, embedding) == [id |-> IdString(record.id), values |-> embedding]

\* env.VECTORIZE.upsert([entry]): the entry replaces one with the same id.
Upsert(index, entry) == {v \in index : v.id # entry.id} \cup {entry}

Ran(step) == wfRuns' = [wfRuns EXCEPT ![step] = @ + 1]

\* The engine on a callback that threw: one attempt is used up; the step is
\* retried while attempts remain, and the run fails when they are exhausted.
StepThrows ==
    /\ wfAttempts' = wfAttempts + 1
    /\ wfStatus' = IF wfAttempts + 1 >= MaxAttempts THEN "failed" ELSE "running"
    /\ wfPending' = NoPending

\* app.post("/text"): 400 without text, else RAG_WORKFLOW.create and 201.
PostText ==
    \E text \in Texts :
      /\ wfStatus = "none"
      /\ IF MissingText(text)
         THEN /\ response' = 400
              /\ UNCHANGED <<wfStatus, wfText>>
         ELSE /\ response' = 201
              /\ wfStatus' = "running"
              /\ wfText' = text
      /\ UNCHANGED <<wfRecord, wfEmbedding, wfVector, wfPending, wfAttempts,
                     wfCrashes, wfRuns, wfEmpty, docs, nextRowId, vectors>>
      /\ UNCHANGED <<chatVars, raceVars>>

\* step.do('create database record'): the INSERT, then the check of its row.
CreateRecord ==
    /\ wfStatus = "running"
    /\ CurrentStep = "create database record"
    /\ wfPending = NoPending
    /\ \E results \in InsertResults :
         /\ docs' = docs \cup {results[i] : i \in 1..Len(results)}
         /\ nextRowId' = nextRowId + Len(results)
         /\ wfEmpty' = (wfEmpty \/ Len(results) = 0)
         /\ IF CreateRecordThrows(results)
            THEN StepThrows
            ELSE /\ wfPending' = [step |-> "create database record",
                                  record |-> results[1]]
                 /\ UNCHANGED <<wfAttempts, wfStatus>>
    /\ Ran("create database record")
    /\ UNCHANGED <<response, wfText, wfRecord, wfEmbedding, wfVector, wfCrashes,
                   vectors>>
    /\ UNCHANGED <<chatVars, raceVars>>

\* step.do('generate embedding'): the external embeddings call may throw.
GenerateEmbedding ==
    /\ wfStatus = "running"
    /\ CurrentStep = "generate embedding"
    /\ wfPending = NoPending
    /\ \E ok \in BOOLEAN :
         IF ok
         THEN /\ wfPending' = [step |-> "generate embedding",
                               embedding |-> Embed(wfText)]
              /\ UNCHANGED <<wfAttempts, wfStatus>>
         ELSE StepThrows
    /\ Ran("generate embedding")
    /\ UNCHANGED <<response, wfText, wfRecord, wfEmbedding, wfVector, wfCrashes,
                   wfEmpty, docs, nextRowId, vectors>>
    /\ UNCHANGED <<chatVars, raceVars>>

\* step.do('insert vector'): if (!record) return; else the upsert, which may
\* throw before it has written.
UpsertVector ==
    /\ wfStatus = "running"
    /\ CurrentStep = "insert vector"
    /\ wfPending = NoPending
    /\ \E ok \in BOOLEAN :
         IF wfRecord = NoRow
         THEN /\ wfPending' = [step |-> "insert vector"]
              /\ UNCHANGED <<wfAttempts, wfStatus, vectors>>
         ELSE IF ok
         THEN /\ vectors' = Upsert(vectors, VectorEntry(wfRecord, wfEmbedding))
              /\ wfPending' = [step |-> "insert vector"]
              /\ UNCHANGED <<wfAttempts, wfStatus>>
         ELSE StepThrows /\ UNCHANGED vectors
    /\ Ran("insert vector")
    /\ UNCHANGED <<response, wfText, wfRecord, wfEmbedding, wfVector, wfCrashes,
                   wfEmpty, docs, nextRowId>>
    /\ UNCHANGED <<chatVars, raceVars>>

\* The engine persists the value a callback returned as the step's
\* checkpoint; after the last step run() returns and the run is complete.
Checkpoint ==
    /\ wfStatus = "running"
    /\ wfPending # NoPending
    /\ wfRecord' = IF wfPending.step = "create database record"
                   THEN wfPending.record ELSE wfRecord
    /\ wfEmbedding' = IF wfPending.step = "generate embedding"
                      THEN wfPending.embedding ELSE wfEmbedding
    /\ wfVector' = (wfVector \/ wfPending.step = "insert vector")
    /\ wfStatus' = IF wfPending.step = "insert vector" THEN "complete" ELSE "running"
    /\ wfPending' = NoPending
    /\ wfAttempts' = 0
    /\ UNCHANGED <<response, wfText, wfCrashes, wfRuns, wfEmpty, docs, nextRowId,
                   vectors>>
    /\ UNCHANGED <<chatVars, raceVars>>

\* The engine crashes and resumes: what a callback returned but the engine
\* had not yet checkpointed is lost; the stores keep what was written.
Crash ==
    /\ wfStatus = "running"
    /\ wfCrashes < MaxCrashes
    /\ wfCrashes' = wfCrashes + 1
    /\ wfPending' = NoPending
    /\ UNCHANGED <<response, wfStatus, wfText, wfRecord, wfEmbedding, wfVector,
                   wfAttempts, wfRuns, wfEmpty, docs, nextRowId, vectors>>
    /\ UNCHANGED <<chatVars, raceVars>>

WfInit == Init /\ mcpTools = {} /\ ~scheduleAsync

WfStep == CreateRecord \/ GenerateEmbedding \/ UpsertVector \/ Checkpoint

WfNext == PostText \/ WfStep \/ Crash

WfSpec == WfInit /\ [][WfNext]_vars

\* The engine keeps executing a run that has a step to execute.
WfFairSpec == WfSpec /\ WF_vars(WfStep)

(***************************************************************************)
(* Properties of the confirmation resolver (checked under Spec).           *)
(***************************************************************************)
\* An invocation of the statically declared tool that carries no execute
\* function, getWeatherInformation.
ConfirmInvocation(m) ==
    /\ IsInvocation(m)
    /\ m.toolInvocation.toolName = "getWeatherInformation"
    /\ "getWeatherInformation" \notin mcpTools

\* C1: in every reachable state, an invocation of a confirmation-required
\* tool has had an execution function called only if an approval for its id
\* was recorded before; while no decision is recorded it is pending, without
\* result, and nothing has been called for it.
C1_NoSideEffectBeforeApproval ==
    \A i \in InvocationIds(messages) :
      ConfirmInvocation(messages[i]) =>
        /\ (calls[i] # <<>> => i \in everApproved)
        /\ (decisions[i] = "none" =>
              /\ messages[i].toolInvocation.state = "pending"
              /\ messages[i].toolInvocation.result = NoResult
              /\ calls[i] = <<>>)

\* Reached: one confirmation-required invocation ran after its approval while
\* an undecided one is still pending after that resolver pass.
C1_Witness ==
    \E i, j \in InvocationIds(messages) :
      /\ ConfirmInvocation(messages[i]) /\ ConfirmInvocation(messages[j])
      /\ j < i
      /\ messages[i].toolInvocation.state = "executed"
      /\ Len(calls[i]) = 1
      /\ decisions[j] = "none"
      /\ messages[j].toolInvocation.state = "pending"

\* C2: a resolver pass over a pending confirmation-required invocation whose
\* decision is approved calls the registered execution function exactly once,
\* with the invocation's original arguments, and leaves it terminal
\* (executed or error) with those arguments unchanged.
C2_ApprovedExecutesOnce ==
    [][ChatTurn =>
         \A i \in InvocationIds(messages) :
           (/\ ConfirmInvocation(messages[i])
            /\ Pending(messages[i])
            /\ decisions[i] = "approved") =>
             /\ messages'[i].toolInvocation.state \in {"executed", "error"}
             /\ messages'[i].toolInvocation.args = messages[i].toolInvocation.args
             /\ calls[i] = <<>>
             /\ calls'[i] = <<[fn |-> "executions",
                               args |-> messages[i].toolInvocation.args]>>
             /\ (messages'[i].toolInvocation.state = "executed" =>
                   messages'[i].toolInvocation.result =
                     getWeatherInformationExecution(messages[i].toolInvocation.args))
       ]_vars

\* Reached: an approved confirmation-required invocation was executed with
\* the city it carried, once.
C2_Witness ==
    \E i \in InvocationIds(messages) :
      /\ ConfirmInvocation(messages[i])
      /\ decisions[i] = "approved"
      /\ messages[i].toolInvocation.state = "executed"
      /\ messages[i].toolInvocation.args.city = "Oslo"
      /\ calls[i] = <<[fn |-> "executions", args |-> [city |-> "Oslo"]]>>

\* C3: a resolver pass over a pending confirmation-required invocation whose
\* decision is denied records the fixed declined result as terminal and calls
\* nothing for it; and a declined invocation has no call in any later state,
\* whatever decision is recorded afterwards.
C3_DeniedNeverExecutes ==
    [][/\ ChatTurn =>
            \A i \in InvocationIds(messages) :
              (/\ ConfirmInvocation(messages[i])
               /\ Pending(messages[i])
               /\ decisions[i] = "denied") =>
                /\ messages'[i].toolInvocation.state = "denied"
                /\ messages'[i].toolInvocation.result = DeclinedResult
                /\ calls'[i] = <<>>
       /\ \A i \in InvocationIds(messages) :
            (ConfirmInvocation(messages[i])
               /\ messages[i].toolInvocation.state = "denied") =>
              /\ messages'[i] = messages[i]
              /\ calls'[i] = <<>>
      ]_vars

\* Reached: a declined invocation whose decision was later changed to
\* approved, still declined and never called.
C3_Witness ==
    \E i \in InvocationIds(messages) :
      /\ ConfirmInvocation(messages[i])
      /\ messages[i].toolInvocation.state = "denied"
      /\ messages[i].toolInvocation.result = DeclinedResult
      /\ decisions[i] = "approved"
      /\ calls[i] = <<>>

\* C4: a resolver pass leaves a confirmation-required invocation that has no
\* decision exactly as it was (pending, no result, nothing called), and every
\* other invocation pending at the start of the pass is terminal after it.
C4_UndecidedUntouchedOthersResolved ==
    [][ChatTurn =>
         \A i \in InvocationIds(messages) :
           Pending(messages[i]) =>
             IF ConfirmInvocation(messages[i]) /\ decisions[i] = "none"
             THEN /\ messages'[i] = messages[i]
                  /\ messages'[i].toolInvocation.result = NoResult
                  /\ calls'[i] = calls[i]
             ELSE Terminal(messages'[i])
       ]_vars

\* Reached: an undecided confirmation-required invocation still pending while
\* a later invocation of the same history was resolved.
C4_Witness ==
    \E i, j \in InvocationIds(messages) :
      /\ i < j
      /\ ConfirmInvocation(messages[i])
      /\ decisions[i] = "none"
      /\ Pending(messages[i])
      /\ ~ConfirmInvocation(messages[j])
      /\ Terminal(messages[j])

\* C5: over any number of resolver passes no invocation's execution function
\* is called more than once in total, and a terminal invocation (executed,
\* error or declined) gets no further call and keeps its state and result.
C5_NoDoubleExecution ==
    [][\A i \in InvocationIds(messages) :
         /\ Len(calls'[i]) <= 1
         /\ Terminal(messages[i]) =>
              (calls'[i] = calls[i] /\ messages'[i] = messages[i])
      ]_vars

\* Reached: an auto-executed and an approved invocation, both terminal with
\* exactly one call each, in a history a further pass has run over.
C5_Witness ==
    \E i, j \in InvocationIds(messages) :
      /\ i < j
      /\ ~ConfirmInvocation(messages[i]) /\ ConfirmInvocation(messages[j])
      /\ Terminal(messages[i]) /\ Len(calls[i]) = 1
      /\ messages[j].toolInvocation.state = "executed" /\ Len(calls[j]) = 1

\* C6: every tool of the active tool set is classified RequiresConfirmation
\* exactly if it carries no execute function and Auto otherwise; among the
\* static tools in force that makes getWeatherInformation, the one tool of the
\* executions table, the only confirmation-required tool.
C6_Classification ==
    /\ \A name \in DOMAIN allTools :
         /\ classify(allTools[name]) \in {"Auto", "RequiresConfirmation"}
         /\ (classify(allTools[name]) = "RequiresConfirmation") <=> ~allTools[name].execute
    /\ \A name \in tools \ mcpTools :
         /\ (classify(allTools[name]) = "RequiresConfirmation")
              <=> (name = "getWeatherInformation")
         /\ (classify(allTools[name]) = "RequiresConfirmation")
              <=> (name \in executions)

\* Reached: with a dynamically discovered tool merged in, an Auto invocation
\* was executed by the resolver while a RequiresConfirmation one waits.
C6_Witness ==
    /\ mcpTools = {"mcpEcho"}
    /\ classify(allTools["mcpEcho"]) = "Auto"
    /\ \E i, j \in InvocationIds(messages) :
         /\ classify(allTools[messages[i].toolInvocation.toolName]) = "RequiresConfirmation"
         /\ Pending(messages[i])
         /\ messages[j].toolInvocation.toolName = "mcpEcho"
         /\ messages[j].toolInvocation.state = "executed"

(***************************************************************************)
(* Properties of the scheduler and its tools (checked under SchedSpec).    *)
(***************************************************************************)
FiresOf(log, id) == {k \in 1..Len(log) : log[k].id = id}

SpecOf(id) == CHOOSE spec \in {schedules[i] : i \in 1..Len(schedules)} : spec.id = id

\* C7: a spec scheduled with {type: "delayed", delayInSeconds: d} at time T
\* has next-fire time T + d while it is listed; it fires at most once, at
\* T + d, through executeTask with the description it was scheduled with
\* (the fire's message carries it), and is not listed after the fire; once
\* the clock is past T + d it has fired unless it was cancelled.
C7_DelayedFiresOnceAtTPlusD ==
    \A k \in 1..Len(regLog) :
      LET r == regLog[k]
          args == messages[r.by].toolInvocation.args
          fires == FiresOf(fireLog, r.id)
      IN args.when.type = "delayed" =>
           LET due == r.at + args.when.delayInSeconds IN
           /\ r.time = due
           /\ r.id \in ActiveIds(schedules) =>
                /\ SpecOf(r.id).time = due
                /\ SpecOf(r.id).payload = args.description
                /\ SpecOf(r.id).callback = "executeTask"
                /\ fires = {}
           /\ Cardinality(fires) <= 1
           /\ \A f \in fires :
                /\ fireLog[f].at = due
                /\ fireLog[f].callback = "executeTask"
                /\ fireLog[f].payload = args.description
                /\ messages[fireLog[f].msg] =
                     [role |-> "user",
                      content |-> [text |-> "Running scheduled task",
                                   description |-> args.description]]
                /\ r.id \notin ActiveIds(schedules)
           /\ now > due =>
                /\ r.id \notin ActiveIds(schedules)
                /\ (fires # {} \/ r.id \in cancelled)

\* Reached: a spec delayed by 2, scheduled at a time T > 0, has fired once at
\* T + 2 and is gone from the list.
C7_Witness ==
    \E k \in 1..Len(regLog) :
      LET r == regLog[k]
          args == messages[r.by].toolInvocation.args
      IN /\ args.when = [type |-> "delayed", delayInSeconds |-> 2]
         /\ r.at > 0
         /\ \E f \in FiresOf(fireLog, r.id) : fireLog[f].at = r.at + 2
         /\ r.id \notin ActiveIds(schedules)

\* The task ids the cancel tool has reported as cancelled.
ReportedCancelled(msgs) ==
    {msgs[i].toolInvocation.args.taskId : i \in
       {j \in InvocationIds(msgs) :
          /\ msgs[j].toolInvocation.toolName = "cancelScheduledTask"
          /\ msgs[j].toolInvocation.result.kind = "has been successfully canceled"}}

\* C8: once the cancel tool has completed for an id, the spec is not listed
\* and its callback is not invoked by any later step, whatever the clock does.
C8_CancelledNeverFires ==
    [][\A id \in ReportedCancelled(messages') :
         /\ id \notin ActiveIds(schedules')
         /\ id \in cancelled'
         /\ id \in ReportedCancelled(messages) =>
              FiresOf(fireLog', id) = FiresOf(fireLog, id)
      ]_vars

\* Reached: a spec cancelled before its fire time, never fired, with the
\* clock past that fire time.
C8_Witness ==
    \E k \in 1..Len(regLog) :
      /\ regLog[k].id \in ReportedCancelled(messages)
      /\ now > regLog[k].time
      /\ FiresOf(fireLog, regLog[k].id) = {}
      /\ regLog[k].id \notin ActiveIds(schedules)

\* C9: a turn that resolves a cancel for an id that is not an active spec
\* leaves the active specs as they are and gives the invocation the error
\* message as its result, not the success message; the turn completes.
C9_CancelUnknownReported ==
    [][SchedTurn =>
         \A i \in InvocationIds(messages) :
           (/\ {j \in InvocationIds(messages) : Pending(messages[j])} = {i}
            /\ messages[i].toolInvocation.toolName = "cancelScheduledTask"
            /\ NotFound(Sch, messages[i].toolInvocation.args.taskId)) =>
             /\ messages'[i].toolInvocation.state = "executed"
             /\ messages'[i].toolInvocation.result =
                  [kind |-> "Error canceling task",
                   taskId |-> messages[i].toolInvocation.args.taskId]
             /\ schedules' = schedules
             /\ cancelled' = cancelled
       ]_vars

\* Reached: a cancel arriving after its one-off spec had fired was answered
\* with the error message.
C9_Witness ==
    \E i \in InvocationIds(messages) :
      /\ messages[i].toolInvocation.toolName = "cancelScheduledTask"
      /\ messages[i].toolInvocation.result.kind = "Error canceling task"
      /\ FiresOf(fireLog, messages[i].toolInvocation.args.taskId) # {}
      /\ messages[i].toolInvocation.args.taskId \notin ActiveIds(schedules)

\* Whether a schedule spec is the no-schedule variant or a malformed cron.
InvalidWhen(when) ==
    \/ when.type = "no-schedule"
    \/ (when.type = "cron" /\ ~CronValid(when.cron))

\* C10: a resolved scheduleTask invocation whose spec is the no-schedule
\* variant or a malformed cron expression has registered nothing and carries
\* an error message as its result, never the "Task scheduled" message.
C10_InvalidScheduleReported ==
    \A i \in InvocationIds(messages) :
      LET inv == messages[i].toolInvocation IN
      (/\ inv.toolName = "scheduleTask"
       /\ Terminal(messages[i])
       /\ InvalidWhen(inv.args.when)) =>
        /\ inv.state = "executed"
        /\ inv.result.kind \in {"Not a valid schedule input", "Error scheduling task"}
        /\ \A k \in 1..Len(regLog) : regLog[k].by # i

(***************************************************************************)
(* Properties of the ingestion workflow (checked under WfSpec).            *)
(***************************************************************************)

\* C11: for any sequence of crashes, retries and resumes, the INSERT of the
\* 'create database record' step commits at most once per run (the model has
\* one run, so the docs table holds at most one row).
C11_InsertAtMostOnce == Cardinality(docs) <= 1

\* The part of C11 that the engine's checkpoint does give: once the step's
\* result is checkpointed, no later step of the run inserts a row.
C11_NoInsertAfterCheckpoint == [][wfRecord # NoRow => docs' = docs]_vars

\* C12: when the INSERT returns an empty result set the run fails for good:
\* 'create database record' is not run again and neither of the later steps
\* ever runs, so the run cannot complete.
C12_EmptyResultIsTerminal ==
    wfEmpty => /\ wfRuns["create database record"] <= 1
               /\ wfRuns["generate embedding"] = 0
               /\ wfRuns["insert vector"] = 0
               /\ wfStatus # "complete"

VectorOf(row) == {v \in vectors : v.id = IdString(row.id)}

\* C13: a step's callback runs only after the preceding step is checkpointed,
\* and a run that completes has inserted exactly one row, computed the
\* embedding of its text and upserted exactly one vector, keyed by the row's
\* id and holding that embedding.
C13_OrderedAndExactlyOne ==
    [][/\ wfRuns'["generate embedding"] # wfRuns["generate embedding"]
            => wfRecord # NoRow
       /\ wfRuns'["insert vector"] # wfRuns["insert vector"]
            => wfRecord # NoRow /\ wfEmbedding # NoEmbedding
       /\ wfStatus' = "complete"
            => /\ Cardinality(docs') = 1
               /\ wfEmbedding' = Embed(wfText)
               /\ vectors' = {[id |-> IdString(wfRecord'.id),
                               values |-> wfEmbedding']}
               /\ wfRecord' \in docs']_vars

\* The ordering and keying part of C13 alone, which does not depend on how
\* many rows the run inserted.
C13_OrderedAndKeyed ==
    [][/\ wfRuns'["generate embedding"] # wfRuns["generate embedding"]
            => wfRecord # NoRow
       /\ wfRuns'["insert vector"] # wfRuns["insert vector"]
            => wfRecord # NoRow /\ wfEmbedding # NoEmbedding
       /\ wfStatus' = "complete"
            => /\ wfEmbedding' = Embed(wfText)
               /\ vectors' = {[id |-> IdString(wfRecord'.id),
                               values |-> wfEmbedding']}
               /\ wfRecord' \in docs']_vars

\* C14: a run that has failed for good leaves no half-linked data: every row
\* in docs has its vector and every vector has its row.
C14_FailedRunLeavesNoPartialLink ==
    wfStatus = "failed" =>
        /\ \A row \in docs : VectorOf(row) # {}
        /\ \A v \in vectors : \E row \in docs : v.id = IdString(row.id)

(***************************************************************************)
(* Further properties of the confirmation resolver (checked under Spec).   *)
(***************************************************************************)
InvState(m) == m.toolInvocation.state

\* C15: in every step an invocation keeps its identity and moves only
\* forward: a pending one stays pending or becomes terminal, a
\* confirmation-required one becomes executed or error only through a
\* recorded approval and denied only through a recorded denial, an
\* auto-executed one is never denied, and a terminal invocation keeps its
\* state and result for good.
C15_StateMonotone ==
    [][\A i \in InvocationIds(messages) :
         LET m == messages[i]  n == messages'[i] IN
         /\ i \in InvocationIds(messages')
         /\ n.toolInvocation.toolName = m.toolInvocation.toolName
         /\ n.toolInvocation.args = m.toolInvocation.args
         /\ Terminal(m) => n = m
         /\ Pending(m) =>
              /\ InvState(n) \in {"pending", "executed", "error", "denied"}
              /\ InvState(n) = "pending" => n = m
              /\ IF ConfirmInvocation(m)
                 THEN /\ InvState(n) \in {"executed", "error"} => decisions[i] = "approved"
                      /\ InvState(n) = "denied" => decisions[i] = "denied"
                 ELSE InvState(n) # "denied"
      ]_vars

\* Reached: an executed and a denied confirmation-required invocation whose
\* recorded decisions were both reversed after they became terminal.
C15_Witness ==
    \E i, j \in InvocationIds(messages) :
      /\ ConfirmInvocation(messages[i]) /\ ConfirmInvocation(messages[j])
      /\ InvState(messages[i]) = "executed" /\ decisions[i] = "denied"
      /\ InvState(messages[j]) = "denied" /\ decisions[j] = "approved"

\* An invocation the pass can resolve: anything pending except a
\* confirmation-required invocation without a decision.
Resolvable(i) ==
    /\ Pending(messages[i])
    /\ ~(ConfirmInvocation(messages[i]) /\ decisions[i] = "none")

\* C16: in a chat turn, an invocation whose execution failed ends in state
\* error with the error-typed result (and an error-typed result is never
\* filed as executed); every other resolvable invocation of the history is
\* terminal after the same pass; and the turn goes on to save the processed
\* history, no shorter than before.
C16_ErrorIsolated ==
    [][ChatTurn =>
         \A i \in InvocationIds(messages) :
           (/\ Pending(messages[i])
            /\ \/ InvState(messages'[i]) = "error"
               \/ messages'[i].toolInvocation.result.kind = "error")
           => /\ InvState(messages'[i]) = "error"
              /\ messages'[i].toolInvocation.result = [kind |-> "error"]
              /\ \A j \in InvocationIds(messages) \ {i} :
                   Resolvable(j) => Terminal(messages'[j])
              /\ Len(messages') >= Len(messages)
      ]_vars

\* Reached: a getRAGTool invocation whose execute threw is in state error
\* and a later invocation of the history was executed.
C16_Witness ==
    \E i, j \in InvocationIds(messages) :
      /\ i < j
      /\ messages[i].toolInvocation.toolName = "getRAGTool"
      /\ InvState(messages[i]) = "error"
      /\ Len(calls[i]) = 1
      /\ InvState(messages[j]) = "executed"
      /\ Len(calls[j]) = 1

(***************************************************************************)
(* Further properties of scheduling (checked under SchedSpec).             *)
(***************************************************************************)
TaskMessage(description) ==
    [role |-> "user",
     content |-> [text |-> "Running scheduled task", description |-> description]]

WhenOf(id) ==
    LET r == CHOOSE r \in {regLog[k] : k \in 1..Len(regLog)} : r.id = id
    IN messages[r.by].toolInvocation.args.when

C20_RunTerminates == (wfStatus = "running") ~> (wfStatus \in {"complete", "failed"})

\* Reached: a run completed after a crash and after a retried step.
C20_Witness ==
    /\ wfStatus = "complete"
    /\ wfCrashes > 0
    /\ \E step \in StepNames : wfRuns[step] > 1

====
